---- MODULE Spec2Model ----
(***************************************************************************)
(* Model of Primary.py, a Streamlit dashboard script.  Every user          *)
(* interaction re-executes the script top to bottom; the four retrieval    *)
(* functions are memoised by st.cache_data with a fixed time-to-live.      *)
(*                                                                         *)
(* Python / JSON values are tagged records:                                *)
(*   [t |-> "null"]  [t |-> "num", n |-> i]  [t |-> "str", s |-> "..."]    *)
(*   [t |-> "list", s |-> <<...>>]  [t |-> "obj", f |-> [key |-> value]]   *)
(* Coordinates are in units of 1e-4 degree, wind bearings in 1e-2 degree.  *)
(***************************************************************************)
EXTENDS Integers, Sequences, FiniteSets, TLC

VARIABLES
    secrets,        \* .streamlit/secrets.toml: [file, keys], keys = [key -> value]
    environ,        \* process environment: [key -> value]
    WEATHERAPI_KEY, \* module global set by the configuration block
    OPENWEATHER_KEY,
    cache,          \* st.cache_data: [call key -> [ret, msgs, age, origin]]
    fetched,        \* history: per call key, the age, the outcome and the result of
                    \* its last network request and whether the caches were cleared since
    place,          \* widget state: text_input
    sel,            \* widget state: selectbox choice, [opts, idx] (idx 0: none made)
    in_lat, in_lon, \* widget state: number_input
    forecast_type,  \* widget state: radio
    show_typhoons,  \* widget state: checkbox
    clicked,        \* the Refresh button was pressed for this run
    feed,           \* the outcomes each upstream service may produce
    pc,             \* position of the running script
    runs,           \* user interactions left
    lat, lon,       \* script variables, [t |-> "undef"] until assigned
    opts,           \* location_options shown by the selectbox in this run
    shown,          \* UI elements emitted by this run, in order
    calls,          \* calls of retrieval functions made by this run, in order
    lastnet,        \* outcome of the network request of the latest call
    table,          \* rows of the forecast table of this run
    map,            \* the map handed to components.html in this run
    raised,         \* exception that ended this run, "none" otherwise
    rerun,          \* this run was started by st.rerun()
    fn_arg,         \* argument of a helper function applied on its own
    fn_result       \* its result

vars == <<secrets, environ, WEATHERAPI_KEY, OPENWEATHER_KEY, cache, fetched,
          place, sel, in_lat, in_lon, forecast_type, show_typhoons, clicked,
          feed, pc, runs, lat, lon, opts, shown, calls, lastnet, table, map,
          raised, rerun, fn_arg, fn_result>>

-----------------------------------------------------------------------------
(* Bounds of the model *)

MaxRuns == 2

-----------------------------------------------------------------------------
(* Python values *)

JNull == [t |-> "null"]
JNum(n) == [t |-> "num", n |-> n]
JStr(s) == [t |-> "str", s |-> s]
JList(s) == [t |-> "list", s |-> s]
JObj(f) == [t |-> "obj", f |-> f]
EmptyObj == JObj(<<>>)
EmptyList == JList(<<>>)

\* bool(v)
Truthy(v) ==
    CASE v.t = "null" -> FALSE
      [] v.t = "num" -> v.n # 0
      [] v.t = "str" -> v.s # ""
      [] v.t = "list" -> Len(v.s) > 0
      [] v.t = "obj" -> DOMAIN v.f # {}

\* v has a .get method (is a dict)
HasGet(v) == v.t = "obj"

\* v.get(k, d) for a dict v
Get(v, k, d) == IF k \in DOMAIN v.f THEN v.f[k] ELSE d

Digits == <<"0", "1", "2", "3", "4", "5", "6", "7", "8", "9">>

RECURSIVE NatStr(_)
NatStr(n) == IF n < 10 THEN Digits[n + 1] ELSE NatStr(n \div 10) \o Digits[(n % 10) + 1]

\* str(v) as an f-string renders it
PyStr(v) ==
    CASE v.t = "null" -> "None"
      [] v.t = "num" -> IF v.n < 0 THEN "-" \o NatStr(-v.n) ELSE NatStr(v.n)
      [] v.t = "str" -> v.s
      [] v.t = "list" -> "[...]"
      [] v.t = "obj" -> "{...}"

-----------------------------------------------------------------------------
(* Helper functions *)

\* the mapping with the last branch forgotten
get_aqi_status_short(aqi_index) ==
    IF aqi_index = 1 THEN "Good"
    ELSE IF aqi_index = 2 THEN "Moderate"
    ELSE IF aqi_index = 3 THEN "Unhealthy for Sensitive"
    ELSE IF aqi_index = 4 THEN "Unhealthy"
    ELSE IF aqi_index = 5 THEN "Very Unhealthy"
    ELSE "Unknown"

\* get_aqi_status(aqi_index)[0]
get_aqi_status(aqi_index) ==
    IF aqi_index = 1 THEN "Good"
    ELSE IF aqi_index = 2 THEN "Moderate"
    ELSE IF aqi_index = 3 THEN "Unhealthy for Sensitive"
    ELSE IF aqi_index = 4 THEN "Unhealthy"
    ELSE IF aqi_index = 5 THEN "Very Unhealthy"
    ELSE IF aqi_index = 6 THEN "Hazardous"
    ELSE "Unknown"

directions == <<"N", "NNE", "NE", "ENE", "E", "ESE", "SE", "SSE",
                "S", "SSW", "SW", "WSW", "W", "WNW", "NW", "NNW">>

\* int(x / y) for y > 0: truncation toward zero
TruncDiv(x, y) == IF x >= 0 THEN x \div y ELSE -((-x) \div y)

\* Python's % with a positive modulus: the result is never negative
PyMod(x, m) == x % m

\* the conversion without the half-sector offset
format_wind_direction_floor(d100) ==
    directions[PyMod(TruncDiv(d100, 2250), 16) + 1]

\* format_wind_direction(degrees), degrees given in hundredths of a degree
format_wind_direction(d100) ==
    LET idx == PyMod(TruncDiv(d100 + 1125, 2250), 16)
    IN  directions[idx + 1]

-----------------------------------------------------------------------------
(* The network: what requests.get, raise_for_status and r.json() do *)

NetOk(body) == [kind |-> "ok", body |-> body]
NetFail(k) == [kind |-> k, body |-> JNull]

\* transport error, timeout, non-2xx status, malformed JSON body
FailureKinds == {"ConnectionError", "Timeout", "HTTPError", "JSONDecodeError"}

\* requests.get(...); r.raise_for_status(); r.json()
RequestJson(out) ==
    IF out.kind = "ok" THEN [exc |-> "none", val |-> out.body]
    ELSE [exc |-> out.kind, val |-> JNull]

\* a handler for the exceptions of the requests library only
ExceptRequestException(e) == e \in {"ConnectionError", "Timeout", "HTTPError"}

\* `except Exception` catches every exception raised in the try body
ExceptException(e) == TRUE

\* try body of geocode
geocode_try(out) ==
    LET r == RequestJson(out)
    IN  IF r.exc # "none" THEN r
        ELSE IF ~HasGet(r.val) THEN [exc |-> "AttributeError", val |-> JNull]
        ELSE [exc |-> "none", val |-> Get(r.val, "results", EmptyList)]

\* geocode(query)
geocode(out) ==
    LET r == geocode_try(out)
    IN  IF r.exc = "none" THEN [ret |-> r.val, msgs |-> <<>>, exc |-> "none"]
        ELSE IF ExceptException(r.exc)
             THEN [ret |-> EmptyList, msgs |-> <<"Geocoding error">>, exc |-> "none"]
             ELSE [ret |-> JNull, msgs |-> <<>>, exc |-> r.exc]

\* get_weather_current(lat, lon)
get_weather_current(out) ==
    LET r == RequestJson(out)
    IN  IF r.exc = "none" THEN [ret |-> r.val, msgs |-> <<>>, exc |-> "none"]
        ELSE IF ExceptException(r.exc)
             THEN [ret |-> JNull, msgs |-> <<"Weather API error">>, exc |-> "none"]
             ELSE [ret |-> JNull, msgs |-> <<>>, exc |-> r.exc]

\* get_weather_forecast(lat, lon, days)
get_weather_forecast(out) ==
    LET r == RequestJson(out)
    IN  IF r.exc = "none" THEN [ret |-> r.val, msgs |-> <<>>, exc |-> "none"]
        ELSE IF ExceptException(r.exc)
             THEN [ret |-> JNull, msgs |-> <<"Weather API error">>, exc |-> "none"]
             ELSE [ret |-> JNull, msgs |-> <<>>, exc |-> r.exc]

\* the try body returning the features as they come
typhoon_try_raw(out) ==
    LET r == RequestJson(out)
    IN  IF r.exc # "none" THEN r
        ELSE IF ~HasGet(r.val) THEN [exc |-> "AttributeError", val |-> JNull]
        ELSE [exc |-> "none", val |-> Get(r.val, "features", EmptyList)]

\* try body of fetch_typhoon_tracks
typhoon_try(out) ==
    LET r == RequestJson(out)
    IN  IF r.exc # "none" THEN r
        ELSE IF ~HasGet(r.val) THEN [exc |-> "AttributeError", val |-> JNull]
        ELSE LET features == Get(r.val, "features", EmptyList)
             IN  [exc |-> "none", val |-> IF Truthy(features) THEN features ELSE EmptyList]

\* fetch_typhoon_tracks()
fetch_typhoon_tracks(out) ==
    LET r == typhoon_try(out)
    IN  IF r.exc = "none" THEN [ret |-> r.val, msgs |-> <<>>, exc |-> "none"]
        ELSE IF ExceptException(r.exc)
             THEN [ret |-> EmptyList, msgs |-> <<>>, exc |-> "none"]
             ELSE [ret |-> JNull, msgs |-> <<>>, exc |-> r.exc]

-----------------------------------------------------------------------------
(* st.cache_data: one entry per function and argument tuple *)

KeyGeocode(q) == [fn |-> "geocode", query |-> q]
KeyCurrent(la, lo) == [fn |-> "get_weather_current", lat |-> la, lon |-> lo]
KeyForecast(la, lo, d) == [fn |-> "get_weather_forecast", lat |-> la, lon |-> lo, days |-> d]
KeyTyphoon == [fn |-> "fetch_typhoon_tracks"]

\* a key that leaves out the days argument
CacheKeyWithoutDays(call) == [a \in (DOMAIN call) \ {"days"} |-> call[a]]

\* the key st.cache_data stores a call under: the function and all its arguments
CacheKey(call) == call

GeocodeTTL == 300
WeatherTTL == 300
TyphoonTTL == 3600

\* the ttl= argument of the decorator of the function
TTL(key) ==
    CASE key.fn = "geocode" -> GeocodeTTL
      [] key.fn = "get_weather_current" -> WeatherTTL
      [] key.fn = "get_weather_forecast" -> WeatherTTL
      [] key.fn = "fetch_typhoon_tracks" -> TyphoonTTL

\* the undecorated function
Body(key, out) ==
    CASE key.fn = "geocode" -> geocode(out)
      [] key.fn = "get_weather_current" -> get_weather_current(out)
      [] key.fn = "get_weather_forecast" -> get_weather_forecast(out)
      [] key.fn = "fetch_typhoon_tracks" -> fetch_typhoon_tracks(out)

\* the outcomes the upstream of the function may produce
Upstream(key) ==
    CASE key.fn = "geocode" -> feed.geocode
      [] key.fn = "get_weather_current" -> feed.current
      [] key.fn = "get_weather_forecast" -> feed.forecast
      [] key.fn = "fetch_typhoon_tracks" -> feed.typhoon

\* a cache whose entries never expire
HitIgnoringTTL(c, key) == CacheKey(key) \in DOMAIN c

\* an entry of the key exists and has not expired
Hit(c, key) == CacheKey(key) \in DOMAIN c /\ c[CacheKey(key)].age < TTL(key)

\* a cache that stores the result only when the request succeeded
CachedCallSuccessOnly(c, key, out) ==
    LET ck == CacheKey(key) IN
    IF Hit(c, key)
    THEN [ret |-> c[ck].ret, msgs |-> c[ck].msgs, exc |-> "none", hit |-> TRUE,
          net |-> "none", origin |-> c[ck].origin, cache |-> c]
    ELSE LET r == Body(key, out)
             e == [ret |-> r.ret, msgs |-> r.msgs, age |-> 0, origin |-> key]
         IN  [ret |-> r.ret, msgs |-> r.msgs, exc |-> r.exc, hit |-> FALSE,
              net |-> out.kind, origin |-> key,
              cache |-> IF r.exc # "none" \/ out.kind # "ok" THEN c
                        ELSE [k \in DOMAIN c \cup {ck} |-> IF k = ck THEN e ELSE c[k]]]

\* a call of a decorated function: the stored value and its replayed messages
\* on a hit; otherwise the function runs and its result is stored.  `origin`
\* is the call whose execution computed the value.
CachedCall(c, key, out) ==
    LET ck == CacheKey(key) IN
    IF Hit(c, key)
    THEN [ret |-> c[ck].ret, msgs |-> c[ck].msgs, exc |-> "none", hit |-> TRUE,
          net |-> "none", origin |-> c[ck].origin, cache |-> c]
    ELSE LET r == Body(key, out)
             e == [ret |-> r.ret, msgs |-> r.msgs, age |-> 0, origin |-> key]
         IN  [ret |-> r.ret, msgs |-> r.msgs, exc |-> r.exc, hit |-> FALSE,
              net |-> out.kind, origin |-> key,
              cache |-> IF r.exc # "none" THEN c
                        ELSE [k \in DOMAIN c \cup {ck} |-> IF k = ck THEN e ELSE c[k]]]

Min(a, b) == IF a < b THEN a ELSE b

\* d seconds pass
Aged(c, d) == [k \in DOMAIN c |-> [c[k] EXCEPT !.age = Min(c[k].age + d, TTL(k))]]
AgedSince(h, d) == [k \in DOMAIN h |-> [h[k] EXCEPT !.age = Min(h[k].age + d, TTL(k))]]

\* a clear that removes nothing
KeepCache == cache

\* st.cache_data.clear()
ClearCache == <<>>

-----------------------------------------------------------------------------
(* Display helpers *)

\* an element handed to the page: container, kind, text, delta text
El(w, k, v, d) == [w |-> w, k |-> k, v |-> v, d |-> d]

Els(w, ms, k) == [i \in 1..Len(ms) |-> El(w, k, ms[i], "")]

\* format spec .4f of a coordinate held in units of 1e-4 degree
Fmt4(n) ==
    LET a == IF n < 0 THEN -n ELSE n
        frac == a % 10000
        pad == IF frac < 10 THEN "000" ELSE IF frac < 100 THEN "00"
               ELSE IF frac < 1000 THEN "0" ELSE ""
    IN  (IF n < 0 THEN "-" ELSE "") \o NatStr(a \div 10000) \o "." \o pad \o NatStr(frac)

\* format spec .1f of a whole number
Fmt1(v) == PyStr(v) \o ".0"

\* the keywords of get_weather_icon that occur in condition_text.lower()
ConditionWords(text) ==
    CASE text = "Sunny" -> {"sunny"}
      [] text = "Clear" -> {"clear"}
      [] text = "Partly cloudy" -> {"partly cloudy", "cloudy"}
      [] text = "Overcast" -> {"overcast"}
      [] text = "Light rain" -> {"rain"}
      [] text = "Moderate or heavy rain with thunder" -> {"rain", "thunder"}
      [] text = "Thundery outbreaks possible" -> {"thunder"}
      [] text = "Mist" -> {"mist"}
      [] OTHER -> {}

\* get_weather_icon(condition_text)
get_weather_icon(text) ==
    LET w == ConditionWords(text)
    IN  IF "sunny" \in w \/ "clear" \in w THEN "sun"
        ELSE IF "partly cloudy" \in w THEN "sun behind cloud"
        ELSE IF "cloudy" \in w \/ "overcast" \in w THEN "cloud"
        ELSE IF "rain" \in w \/ "drizzle" \in w THEN "rain"
        ELSE IF "storm" \in w \/ "thunder" \in w THEN "thunderstorm"
        ELSE IF "snow" \in w THEN "snow"
        ELSE IF "fog" \in w \/ "mist" \in w THEN "fog"
        ELSE "sun behind small cloud"

NA == JStr("N/A")

\* f"{d.get(k, 'N/A')}" followed by a unit
Field(d, k, unit) == PyStr(Get(d, k, NA)) \o unit

\* pd.DataFrame(rows).columns
Columns(rows) == UNION {DOMAIN rows[i] : i \in 1..Len(rows)}

\* the whole sequence
NoSlice(s, n) == s

\* seq[:n]
Slice(s, n) == SubSeq(s, 1, Min(n, Len(s)))

RECURSIVE Flatten(_)
Flatten(ss) == IF Len(ss) = 0 THEN <<>> ELSE ss[1] \o Flatten(Tail(ss))

-----------------------------------------------------------------------------
(* Tab 1: the forecast panels.  Each yields the elements emitted, the rows *)
(* of its table and the exception that ended it.                           *)

NoPanel == [els |-> <<>>, rows |-> <<>>, exc |-> "none"]

\* the Air Quality block of the Current panel
AirQuality(current) ==
    IF ~Truthy(Get(current, "air_quality", JNull)) THEN <<>>
    ELSE LET aqi == current.f["air_quality"]
             epa_index == Get(aqi, "us-epa-index", JNum(0))
             status == get_aqi_status(epa_index.n)
         IN  << El("tab1", "markdown", "Air Quality Index", ""),
                El("tab1", "metric:Overall", status, ""),
                El("tab1", "metric:PM2.5", Fmt1(Get(aqi, "pm2_5", JNum(0))), ""),
                El("tab1", "metric:PM10", Fmt1(Get(aqi, "pm10", JNum(0))), ""),
                El("tab1", "metric:CO", Fmt1(Get(aqi, "co", JNum(0))), "") >>

\* the body of `if weather_data:` in Current mode
CurrentPanel(weather_data, la, lo) ==
    LET current == Get(weather_data, "current", EmptyObj)
        location == Get(weather_data, "location", EmptyObj)
    IN  IF ~HasGet(current) \/ ~HasGet(location) \/ ~HasGet(Get(current, "condition", EmptyObj))
        THEN [els |-> <<>>, rows |-> <<>>, exc |-> "AttributeError"]
        ELSE
        LET condition == Get(current, "condition", EmptyObj)
            wind_dir == format_wind_direction(Get(current, "wind_degree", JNum(0)).n * 100)
            uv_value == Get(current, "uv", JNum(0))
            uv_color == IF uv_value.n < 3 THEN "green" ELSE IF uv_value.n < 6 THEN "yellow"
                        ELSE IF uv_value.n < 8 THEN "orange" ELSE "red"
        IN  [els |->
              << El("tab1", "header",
                    PyStr(Get(location, "name", JStr(""))) \o ", "
                      \o PyStr(Get(location, "region", JStr(""))), ""),
                 El("tab1", "caption",
                    PyStr(Get(location, "localtime", JStr(""))) \o " | Coordinates: "
                      \o Fmt4(la.n) \o ", " \o Fmt4(lo.n), ""),
                 El("tab1", "icon", get_weather_icon(PyStr(Get(condition, "text", JStr("")))), ""),
                 El("tab1", "markdown", Field(condition, "text", ""), ""),
                 El("tab1", "metric:Temperature", Field(current, "temp_c", "C"),
                    "Feels " \o Field(current, "feelslike_c", "C")),
                 El("tab1", "metric:Humidity", Field(current, "humidity", "%"), ""),
                 El("tab1", "metric:Wind", Field(current, "wind_kph", " km/h"), wind_dir),
                 El("tab1", "metric:Precipitation", Field(current, "precip_mm", " mm"), ""),
                 El("tab1", "metric:Clouds", Field(current, "cloud", "%"), ""),
                 El("tab1", "metric:Visibility", Field(current, "vis_km", " km"), ""),
                 El("tab1", "metric:Pressure", Field(current, "pressure_mb", " mb"), ""),
                 El("tab1", "metric:UV Index", PyStr(uv_value) \o " " \o uv_color, "") >>
              \o AirQuality(current),
             rows |-> <<>>, exc |-> "none"]

\* forecast = weather_data.get("forecast", {}).get("forecastday", [])
ForecastDays(weather_data) ==
    LET f == Get(weather_data, "forecast", EmptyObj)
    IN  Get(f, "forecastday", EmptyList).s

\* d.get(k): None when the key is absent
GetNone(d, k) == Get(d, k, JNull)

HourlyColumns == {"time", "temp_c", "feelslike_c", "humidity", "precip_mm", "wind_kph",
                  "condition", "chance_of_rain", "uv"}

\* one appended record of hourly_data
HourRow(hour) ==
    [c \in HourlyColumns |->
        IF c = "condition" THEN GetNone(Get(hour, "condition", EmptyObj), "text")
        ELSE GetNone(hour, c)]

\* hourly_data after the two nested loops
HourlyData(forecast) ==
    Flatten([d \in 1..Len(forecast) |->
        LET hours == Get(forecast[d], "hour", EmptyList).s
        IN  [h \in 1..Len(hours) |-> HourRow(hours[h])]])

MaxHourRows == 48

\* the charts and the table built from a data frame
FrameEls(title, rows, index, charts) ==
    << El("tab1", "markdown", title, "") >>
    \o (IF index \in Columns(rows)
        THEN [i \in 1..Len(charts) |-> El("tab1", "chart", charts[i], "")]
             \o << El("tab1", "dataframe", NatStr(Len(rows)) \o " rows", "") >>
        ELSE <<>>)

\* the body of `if weather_data:` in Hourly mode
HourlyPanel(weather_data) ==
    LET rows == Slice(HourlyData(ForecastDays(weather_data)), MaxHourRows)
    IN  [els |-> FrameEls("48-Hour Forecast", rows, "time",
                          <<"Temperature Forecast", "Precipitation (mm)", "Wind Speed (km/h)">>),
         rows |-> IF "time" \in Columns(rows) THEN rows ELSE <<>>,
         exc |-> IF "time" \in Columns(rows) THEN "none" ELSE "KeyError"]

DailyColumns == {"date", "condition", "maxtemp_c", "mintemp_c", "avgtemp_c", "totalprecip_mm",
                 "avghumidity", "maxwind_kph", "daily_chance_of_rain", "uv"}

\* one appended record of daily_data
DayRow(day) ==
    LET day_data == Get(day, "day", EmptyObj)
    IN  [c \in DailyColumns |->
            IF c = "date" THEN GetNone(day, "date")
            ELSE IF c = "condition" THEN GetNone(Get(day_data, "condition", EmptyObj), "text")
            ELSE GetNone(day_data, c)]

\* the body of `if weather_data:` in Daily mode
DailyPanel(weather_data) ==
    LET forecast == ForecastDays(weather_data)
        rows == [d \in 1..Len(forecast) |-> DayRow(forecast[d])]
    IN  [els |-> FrameEls("7-Day Forecast", rows, "date",
                          <<"Temperature Range", "Total Precipitation (mm)", "Rain Probability (%)">>),
         rows |-> IF "date" \in Columns(rows) THEN rows ELSE <<>>,
         exc |-> IF "date" \in Columns(rows) THEN "none" ELSE "KeyError"]

\* every panel asking for the current weather
PanelKeyAlwaysCurrent(ftype, la, lo) == KeyCurrent(la, lo)

\* the call made by the selected panel
PanelKey(ftype, la, lo) ==
    IF ftype = "Current" THEN KeyCurrent(la, lo)
    ELSE IF ftype = "Hourly" THEN KeyForecast(la, lo, 2)
    ELSE KeyForecast(la, lo, 7)

\* the panel rendered without the `if weather_data:` guard
AlwaysPanel(ftype, weather_data, la, lo) ==
    IF ftype = "Current" THEN CurrentPanel(IF HasGet(weather_data) THEN weather_data ELSE EmptyObj, la, lo)
    ELSE IF ftype = "Hourly" THEN HourlyPanel(IF HasGet(weather_data) THEN weather_data ELSE EmptyObj)
    ELSE DailyPanel(IF HasGet(weather_data) THEN weather_data ELSE EmptyObj)

\* the panel of the selected forecast type
Panel(ftype, weather_data, la, lo) ==
    IF ~Truthy(weather_data) THEN NoPanel
    ELSE IF ftype = "Current" THEN CurrentPanel(weather_data, la, lo)
    ELSE IF ftype = "Hourly" THEN HourlyPanel(weather_data)
    ELSE DailyPanel(weather_data)

-----------------------------------------------------------------------------
(* Tab 2: the map *)

NoMap == [embedded |-> FALSE, center |-> <<>>, temp |-> "", cond |-> "",
          typhoonLayer |-> FALSE, items |-> <<>>]

\* temp_display and condition_display of the location popup
Popup(current_weather) ==
    IF ~Truthy(current_weather) THEN [temp |-> "N/A", cond |-> "Loading...", exc |-> "none"]
    ELSE LET current == Get(current_weather, "current", EmptyObj)
         IN  IF ~HasGet(current) \/ ~HasGet(Get(current, "condition", EmptyObj))
             THEN [temp |-> "N/A", cond |-> "Loading...", exc |-> "AttributeError"]
             ELSE [temp |-> Field(current, "temp_c", "C"),
                   cond |-> Field(Get(current, "condition", EmptyObj), "text", ""),
                   exc |-> "none"]

\* c is a [lon, lat, ...] pair
IsPair(c) == c.t = "list" /\ Len(c.s) >= 2

\* one iteration of `for feature in typhoon_data`
FeatureItem(feature) ==
    IF ~HasGet(feature) THEN [exc |-> "AttributeError", items |-> <<>>]
    ELSE LET geometry == Get(feature, "geometry", EmptyObj)
             props == Get(feature, "properties", EmptyObj)
         IN
         IF ~HasGet(geometry) THEN [exc |-> "AttributeError", items |-> <<>>]
         ELSE LET coords == Get(geometry, "coordinates", EmptyList) IN
         IF ~Truthy(coords) THEN [exc |-> "none", items |-> <<>>]
         ELSE IF coords.t # "list" THEN [exc |-> "TypeError", items |-> <<>>]
         ELSE IF coords.s[1].t = "list"
         THEN IF \E i \in 1..Len(coords.s) : ~IsPair(coords.s[i])
              THEN [exc |-> IF \E i \in 1..Len(coords.s) : coords.s[i].t # "list"
                            THEN "TypeError" ELSE "IndexError",
                    items |-> <<>>]
              ELSE IF ~HasGet(props) THEN [exc |-> "AttributeError", items |-> <<>>]
              ELSE [exc |-> "none",
                    items |-> << [kind |-> "polyline",
                                  pts |-> [i \in 1..Len(coords.s) |->
                                              <<coords.s[i].s[2], coords.s[i].s[1]>>],
                                  name |-> PyStr(Get(props, "name", JStr("Typhoon")))] >>]
         ELSE IF Len(coords.s) < 2 THEN [exc |-> "IndexError", items |-> <<>>]
              ELSE IF ~HasGet(props) THEN [exc |-> "AttributeError", items |-> <<>>]
              ELSE [exc |-> "none",
                    items |-> << [kind |-> "circleMarker",
                                  pts |-> << <<coords.s[2], coords.s[1]>> >>,
                                  name |-> PyStr(Get(props, "name", JStr("Typhoon")))] >>]

\* the loop over typhoon_data: the items added until the loop ends or raises
RECURSIVE Overlay(_)
Overlay(features) ==
    IF Len(features) = 0 THEN [exc |-> "none", items |-> <<>>]
    ELSE LET one == FeatureItem(features[1])
         IN  IF one.exc # "none" THEN one
             ELSE LET rest == Overlay(Tail(features))
                  IN  [exc |-> rest.exc, items |-> one.items \o rest.items]

-----------------------------------------------------------------------------
(* Configuration *)

KeyNames == {"WEATHERAPI_KEY", "OPENWEATHER_KEY"}

\* st.secrets[name] succeeds for both names
SecretsHaveBoth == secrets.file /\ KeyNames \subseteq DOMAIN secrets.keys

\* os.getenv(name)
Getenv(name) == IF name \in DOMAIN environ THEN JStr(environ[name]) ELSE JNull

\* the key values the configuration block leaves in the two globals
ConfiguredKey(name) == IF SecretsHaveBoth THEN JStr(secrets.keys[name]) ELSE Getenv(name)

\* the guard with `and` in place of `or`
MustStopBothMissing ==
    ~SecretsHaveBoth
    /\ (~Truthy(Getenv("WEATHERAPI_KEY")) /\ ~Truthy(Getenv("OPENWEATHER_KEY")))

\* the condition of the `if` guarding st.error and st.stop
MustStop == ~SecretsHaveBoth
            /\ (~Truthy(Getenv("WEATHERAPI_KEY")) \/ ~Truthy(Getenv("OPENWEATHER_KEY")))

-----------------------------------------------------------------------------
(* Widgets *)

DefaultLat == 145995
DefaultLon == 1209842

Undef == [t |-> "undef"]
NoSel == [opts |-> <<>>, idx |-> 0]

Widgets == [place |-> place, sel |-> sel, in_lat |-> in_lat, in_lon |-> in_lon,
            forecast_type |-> forecast_type, show_typhoons |-> show_typhoons,
            clicked |-> clicked]

\* the widget values of a new session
DefaultWidgets == [place |-> "", sel |-> NoSel, in_lat |-> DefaultLat, in_lon |-> DefaultLon,
                   forecast_type |-> "Current", show_typhoons |-> TRUE, clicked |-> FALSE]

Places == {"cebu"}
Lats == {DefaultLat, 103157}
Lons == {DefaultLon, 1238854}
ForecastTypes == {"Current", "Hourly", "Daily"}

\* seconds that may pass between two runs
Deltas == {150, 300, 3600}

\* the index the selectbox holds for the options it shows: the user's choice
\* if one was made among these options, the first option otherwise
SelectedIndex(options) ==
    IF sel.opts = options /\ sel.idx \in 1..Len(options) THEN sel.idx ELSE 1

Rendered(kind) == \E i \in 1..Len(shown) : shown[i].k = kind

\* the widget values after one interaction with the page of the last run
Interactions ==
    LET w == [Widgets EXCEPT !.clicked = FALSE]
    IN  {DefaultWidgets}
        \cup (IF Rendered("text_input")
              THEN {[w EXCEPT !.place = p] : p \in (Places \cup {""}) \ {place}} ELSE {})
        \cup (IF Rendered("number_input")
              THEN {[w EXCEPT !.in_lat = v] : v \in Lats \ {in_lat}}
                   \cup {[w EXCEPT !.in_lon = v] : v \in Lons \ {in_lon}} ELSE {})
        \cup (IF Rendered("selectbox")
              THEN {[w EXCEPT !.sel = [opts |-> opts, idx |-> i]] :
                        i \in (1..Len(opts)) \ {SelectedIndex(opts)}}
              ELSE {})
        \cup (IF Rendered("radio")
              THEN {[w EXCEPT !.forecast_type = t] : t \in ForecastTypes \ {forecast_type}}
              ELSE {})
        \cup (IF Rendered("checkbox")
              THEN {[w EXCEPT !.show_typhoons = ~show_typhoons]} ELSE {})
        \cup (IF Rendered("button")
              THEN {[w EXCEPT !.clicked = TRUE]} ELSE {})

-----------------------------------------------------------------------------
(* The script *)

\* the script starts over: its variables and its page are empty
StartRun ==
    /\ pc' = "config"
    /\ lat' = Undef /\ lon' = Undef
    /\ opts' = <<>> /\ shown' = <<>> /\ calls' = <<>> /\ lastnet' = "none"
    /\ table' = <<>> /\ map' = NoMap /\ raised' = "none"

\* the script ends on an exception
Raise(e, els) ==
    /\ pc' = "raised"
    /\ raised' = e
    /\ shown' = shown \o els \o << El("main", "exception", e, "") >>

CallRecord(key, c) == [key |-> key, hit |-> c.hit, ret |-> c.ret, origin |-> c.origin]

\* the effects every call of a decorated function has
Called(key, c) ==
    /\ cache' = c.cache
    /\ fetched' = IF c.hit THEN fetched
                  ELSE [k \in DOMAIN fetched \cup {key} |->
                          IF k = key THEN [age |-> 0, ret |-> c.ret, net |-> c.net,
                                           cleared |-> FALSE]
                          ELSE fetched[k]]
    /\ calls' = Append(calls, CallRecord(key, c))
    /\ lastnet' = c.net

\* the user loads the page or changes a widget, some time after the last run
UserInput ==
    /\ pc \in {"idle", "done", "stopped", "raised"}
    /\ runs >= 1
    /\ \E w \in Interactions, d \in Deltas :
        /\ place' = w.place /\ sel' = w.sel /\ in_lat' = w.in_lat /\ in_lon' = w.in_lon
        /\ forecast_type' = w.forecast_type /\ show_typhoons' = w.show_typhoons
        /\ clicked' = w.clicked
        /\ cache' = Aged(cache, d)
        /\ fetched' = AgedSince(fetched, d)
    /\ runs' = runs - 1
    /\ StartRun
    /\ rerun' = FALSE
    /\ UNCHANGED <<secrets, environ, WEATHERAPI_KEY, OPENWEATHER_KEY, feed, fn_arg, fn_result>>

\* lines 18-55
Configuration ==
    /\ pc = "config"
    /\ WEATHERAPI_KEY' = ConfiguredKey("WEATHERAPI_KEY")
    /\ OPENWEATHER_KEY' = ConfiguredKey("OPENWEATHER_KEY")
    /\ IF MustStop
       THEN /\ pc' = "stopped"
            /\ shown' = Append(shown, El("main", "error", "API Keys Not Found!", ""))
       ELSE /\ pc' = "sidebar"
            /\ shown' = shown
    /\ UNCHANGED <<rerun, secrets, environ, cache, fetched, place, sel, in_lat, in_lon,
                   forecast_type, show_typhoons, clicked, feed, runs, lat, lon, opts,
                   calls, lastnet, table, map, raised, fn_arg, fn_result>>

\* f"{r.get('name', '')}, {r.get('admin1', '')}"
Label(r) == PyStr(Get(r, "name", JStr(""))) \o ", " \o PyStr(Get(r, "admin1", JStr("")))

\* location_options.index(selected): the first position holding the label
IndexOf(options, label) ==
    CHOOSE i \in 1..Len(options) :
        options[i] = label /\ \A j \in 1..(i - 1) : options[j] # label

\* the widgets of the sidebar below the location section
SidebarRest ==
    << El("sidebar", "radio", forecast_type, ""),
       El("sidebar", "checkbox", IF show_typhoons THEN "on" ELSE "off", "") >>

\* `if results:` taken: the selectbox and the coordinates of the chosen result
LocationFound(results) ==
    LET location_options == [i \in 1..Len(results.s) |-> Label(results.s[i])]
        selected == location_options[SelectedIndex(location_options)]
        idx == IndexOf(location_options, selected)
        r == results.s[idx]
        box == << El("sidebar", "selectbox", selected, "") >>
        state == [opts |-> location_options,
                  sel |-> [opts |-> location_options,
                           idx |-> SelectedIndex(location_options)]]
    IN  IF selected = ""
        THEN state @@ [lat |-> Undef, lon |-> Undef, els |-> box, exc |-> "none"]
        ELSE IF "latitude" \notin DOMAIN r.f \/ "longitude" \notin DOMAIN r.f
        THEN state @@ [lat |-> Undef, lon |-> Undef, els |-> box, exc |-> "KeyError"]
        ELSE state @@ [lat |-> r.f["latitude"], lon |-> r.f["longitude"],
                       els |-> box \o << El("sidebar", "success", selected, "") >>,
                       exc |-> "none"]

\* the else branch without the two assignments
NotFoundNoDefault ==
    [opts |-> <<>>, sel |-> NoSel, lat |-> Undef, lon |-> Undef,
     els |-> << El("sidebar", "error", "Location not found", "") >>, exc |-> "none"]

\* the else branch of `if results:`
LocationNotFound ==
    [opts |-> <<>>, sel |-> NoSel, lat |-> JNum(DefaultLat), lon |-> JNum(DefaultLon),
     els |-> << El("sidebar", "error", "Location not found", "") >>, exc |-> "none"]

\* lines 214-225: what the location section does with the geocoding results
LocationSection(results) ==
    IF Truthy(results) THEN LocationFound(results) ELSE LocationNotFound

\* lines 202-276: the sidebar
Sidebar ==
    /\ pc = "sidebar"
    /\ IF place # ""
       THEN \E out \in Upstream(KeyGeocode(place)) :
              LET c == CachedCall(cache, KeyGeocode(place), out)
                  loc == LocationSection(c.ret)
                  head == << El("sidebar", "text_input", place, "") >>
                          \o Els("sidebar", c.msgs, "error")
              IN
              /\ Called(KeyGeocode(place), c)
              /\ in_lat' = DefaultLat /\ in_lon' = DefaultLon
              /\ IF c.exc # "none"
                 THEN /\ Raise(c.exc, head)
                      /\ UNCHANGED <<lat, lon, opts, sel>>
                 ELSE /\ opts' = loc.opts
                      /\ sel' = loc.sel
                      /\ lat' = loc.lat
                      /\ lon' = loc.lon
                      /\ IF loc.exc # "none"
                         THEN Raise(loc.exc, head \o loc.els)
                         ELSE /\ shown' = shown \o head \o loc.els \o SidebarRest
                              /\ pc' = "alerts"
                              /\ UNCHANGED raised
       ELSE /\ lat' = JNum(in_lat)
            /\ lon' = JNum(in_lon)
            /\ shown' = shown \o << El("sidebar", "text_input", place, ""),
                                    El("sidebar", "number_input", Fmt4(in_lat), ""),
                                    El("sidebar", "number_input", Fmt4(in_lon), "") >>
                              \o SidebarRest
            /\ opts' = <<>> /\ sel' = NoSel
            /\ pc' = "alerts"
            /\ UNCHANGED <<cache, fetched, calls, lastnet, in_lat, in_lon, raised>>
    /\ UNCHANGED <<rerun, secrets, environ, WEATHERAPI_KEY, OPENWEATHER_KEY, place,
                   forecast_type, show_typhoons, clicked, feed, runs, table, map,
                   fn_arg, fn_result>>

\* the exception of `.get` on a response, or on an "alerts" value, that is
\* not a dict
AlertsError(weather_data_check) ==
    IF ~Truthy(weather_data_check) THEN "none"
    ELSE IF ~HasGet(weather_data_check) THEN "AttributeError"
    ELSE IF ~HasGet(Get(weather_data_check, "alerts", EmptyObj)) THEN "AttributeError"
    ELSE "none"

\* a banner that shows the first alert only
AlertLinesFirstOnly(weather_data_check) ==
    IF ~Truthy(weather_data_check) THEN <<>>
    ELSE LET alerts == Get(Get(weather_data_check, "alerts", EmptyObj), "alert", EmptyList)
         IN  IF ~Truthy(alerts) THEN <<>>
             ELSE << El("main", "alert", PyStr(Get(alerts.s[1], "headline", JStr("Alert"))), "") >>

\* one st.error line per alert of the response
AlertLines(weather_data_check) ==
    IF ~Truthy(weather_data_check) THEN <<>>
    ELSE LET alerts == Get(Get(weather_data_check, "alerts", EmptyObj), "alert", EmptyList)
         IN  IF ~Truthy(alerts) THEN <<>>
             ELSE [i \in 1..Len(alerts.s) |->
                     El("main", "alert", PyStr(Get(alerts.s[i], "headline", JStr("Alert"))), "")]

\* lines 279-291: the page header and the weather alerts banner
AlertsBanner ==
    /\ pc = "alerts"
    /\ IF lat = Undef \/ lon = Undef
       THEN /\ Raise("NameError", <<>>)
            /\ UNCHANGED <<cache, fetched, calls, lastnet>>
       ELSE \E out \in Upstream(KeyForecast(lat, lon, 1)) :
              LET c == CachedCall(cache, KeyForecast(lat, lon, 1), out)
              IN  /\ Called(KeyForecast(lat, lon, 1), c)
                  /\ IF c.exc # "none"
                     THEN Raise(c.exc, <<>>)
                     ELSE IF AlertsError(c.ret) # "none"
                     THEN Raise(AlertsError(c.ret), Els("main", c.msgs, "error"))
                     ELSE /\ shown' = shown \o Els("main", c.msgs, "error")
                                      \o AlertLines(c.ret)
                          /\ pc' = "tab1"
                          /\ UNCHANGED raised
    /\ UNCHANGED <<rerun, secrets, environ, WEATHERAPI_KEY, OPENWEATHER_KEY, place, sel, in_lat,
                   in_lon, forecast_type, show_typhoons, clicked, feed, runs, lat, lon,
                   opts, table, map, fn_arg, fn_result>>

\* lines 294-503: the forecast tab
Tab1 ==
    /\ pc = "tab1"
    /\ \E out \in Upstream(PanelKey(forecast_type, lat, lon)) :
         LET key == PanelKey(forecast_type, lat, lon)
             c == CachedCall(cache, key, out)
             panel == Panel(forecast_type, c.ret, lat, lon)
             els == Els("tab1", c.msgs, "error") \o panel.els
         IN  /\ Called(key, c)
             /\ IF c.exc # "none"
                THEN /\ Raise(c.exc, <<>>)
                     /\ table' = table
                ELSE IF panel.exc # "none"
                THEN /\ Raise(panel.exc, els)
                     /\ table' = table
                ELSE /\ shown' = shown \o els
                     /\ table' = panel.rows
                     /\ pc' = "tab2"
                     /\ UNCHANGED raised
    /\ UNCHANGED <<rerun, secrets, environ, WEATHERAPI_KEY, OPENWEATHER_KEY, place, sel, in_lat,
                   in_lon, forecast_type, show_typhoons, clicked, feed, runs, lat, lon,
                   opts, map, fn_arg, fn_result>>

\* lines 506-537: the head of the map tab and the weather of the popup
Tab2Popup ==
    /\ pc = "tab2"
    /\ \E out \in Upstream(KeyCurrent(lat, lon)) :
         LET c == CachedCall(cache, KeyCurrent(lat, lon), out)
             popup == Popup(c.ret)
             els == << El("tab2", "markdown", "Real-Time Weather Visualization", "") >>
                    \o Els("tab2", c.msgs, "error")
         IN  /\ Called(KeyCurrent(lat, lon), c)
             /\ IF c.exc # "none"
                THEN /\ Raise(c.exc, <<>>)
                     /\ map' = map
                ELSE IF popup.exc # "none"
                THEN /\ Raise(popup.exc, els)
                     /\ map' = map
                ELSE /\ shown' = shown \o els
                     /\ map' = [map EXCEPT !.center = <<lat, lon>>, !.temp = popup.temp,
                                           !.cond = popup.cond]
                     /\ pc' = "map"
                     /\ UNCHANGED raised
    /\ UNCHANGED <<rerun, secrets, environ, WEATHERAPI_KEY, OPENWEATHER_KEY, place, sel, in_lat,
                   in_lon, forecast_type, show_typhoons, clicked, feed, runs, lat, lon,
                   opts, table, fn_arg, fn_result>>

\* lines 540-1059: the map with its typhoon layer, embedded in the page
Tab2Map ==
    /\ pc = "map"
    /\ IF show_typhoons
       THEN \E out \in Upstream(KeyTyphoon) :
              LET c == CachedCall(cache, KeyTyphoon, out)
                  typhoon_data == c.ret
                  layer == IF Truthy(typhoon_data) THEN Overlay(typhoon_data.s)
                           ELSE [exc |-> "none", items |-> <<>>]
              IN  /\ Called(KeyTyphoon, c)
                  /\ IF c.exc # "none"
                     THEN /\ Raise(c.exc, <<>>)
                          /\ map' = map
                     ELSE IF layer.exc # "none"
                     THEN /\ Raise(layer.exc, <<>>)
                          /\ map' = map
                     ELSE /\ map' = [map EXCEPT !.embedded = TRUE,
                                                !.typhoonLayer = Truthy(typhoon_data),
                                                !.items = layer.items]
                          /\ shown' = Append(shown, El("tab2", "map", "", ""))
                          /\ pc' = "footer"
                          /\ UNCHANGED raised
       ELSE /\ map' = [map EXCEPT !.embedded = TRUE]
            /\ shown' = Append(shown, El("tab2", "map", "", ""))
            /\ pc' = "footer"
            /\ UNCHANGED <<cache, fetched, calls, lastnet, raised>>
    /\ UNCHANGED <<rerun, secrets, environ, WEATHERAPI_KEY, OPENWEATHER_KEY, place, sel, in_lat,
                   in_lon, forecast_type, show_typhoons, clicked, feed, runs, lat, lon,
                   opts, table, fn_arg, fn_result>>

\* lines 1063-1068: the refresh button
Footer ==
    /\ pc = "footer"
    /\ IF clicked
       THEN /\ cache' = ClearCache
            /\ fetched' = [k \in DOMAIN fetched |-> [fetched[k] EXCEPT !.cleared = TRUE]]
            /\ clicked' = FALSE
            /\ StartRun
            /\ rerun' = TRUE
       ELSE /\ shown' = Append(shown, El("main", "button", "Refresh All Data", ""))
            /\ pc' = "done"
            /\ UNCHANGED <<cache, fetched, clicked, lat, lon, opts, calls, lastnet,
                           table, map, raised, rerun>>
    /\ UNCHANGED <<secrets, environ, WEATHERAPI_KEY, OPENWEATHER_KEY, place, sel, in_lat,
                   in_lon, forecast_type, show_typhoons, feed, runs, fn_arg, fn_result>>

Next ==
    \/ UserInput
    \/ Configuration
    \/ Sidebar
    \/ AlertsBanner
    \/ Tab1
    \/ Tab2Popup
    \/ Tab2Map
    \/ Footer

-----------------------------------------------------------------------------
(* Upstream responses *)

\* an object without the keys in `absent`
Without(obj, absent) == JObj([k \in (DOMAIN obj.f) \ absent |-> obj.f[k]])

\* an object with key k set to v
With(obj, k, v) == JObj([j \in (DOMAIN obj.f) \cup {k} |-> IF j = k THEN v ELSE obj.f[j]])

GeoResult(name, admin1, la, lo) ==
    JObj([name |-> JStr(name), admin1 |-> JStr(admin1),
          latitude |-> JNum(la), longitude |-> JNum(lo)])

GeoNothing == JObj([generationtime_ms |-> JNum(1)])
GeoTwo == JObj([results |-> JList(<< GeoResult("Cebu City", "Central Visayas", 103157, 1238854),
                                     GeoResult("Cebu", "Bicol", 103157, DefaultLon) >>)])
GeoSameLabel == JObj([results |-> JList(<< GeoResult("San Jose", "Luzon", 103157, 1238854),
                                           GeoResult("San Jose", "Luzon", DefaultLat, 1238854) >>)])

AirFull == JObj(("us-epa-index" :> JNum(2))
                @@ [pm2_5 |-> JNum(12), pm10 |-> JNum(20), co |-> JNum(300)])

CurrentFields == [ temp_c |-> JNum(31), feelslike_c |-> JNum(36), humidity |-> JNum(70),
                   wind_degree |-> JNum(90), wind_kph |-> JNum(12), precip_mm |-> JNum(0),
                   cloud |-> JNum(50), vis_km |-> JNum(10), pressure_mb |-> JNum(1008),
                   uv |-> JNum(7), condition |-> JObj([text |-> JStr("Partly cloudy")]),
                   air_quality |-> AirFull ]

LocationFields == [ name |-> JStr("Manila"), region |-> JStr("Manila"),
                    localtime |-> JStr("2024-01-01 10:00") ]

CurrentFull == JObj([ location |-> JObj(LocationFields), current |-> JObj(CurrentFields) ])

HourRecord(time, temp) ==
    JObj([ time |-> JStr(time), temp_c |-> JNum(temp), feelslike_c |-> JNum(temp + 4),
           humidity |-> JNum(70), precip_mm |-> JNum(0), wind_kph |-> JNum(12),
           condition |-> JObj([text |-> JStr("Sunny")]), chance_of_rain |-> JNum(10),
           uv |-> JNum(5) ])

DayFields == [ condition |-> JObj([text |-> JStr("Light rain")]), maxtemp_c |-> JNum(33),
               mintemp_c |-> JNum(25), avgtemp_c |-> JNum(29), totalprecip_mm |-> JNum(3),
               avghumidity |-> JNum(75), maxwind_kph |-> JNum(20),
               daily_chance_of_rain |-> JNum(80), uv |-> JNum(6) ]

DayRecord(date, hours) ==
    JObj([ date |-> JStr(date), day |-> JObj(DayFields), hour |-> JList(hours) ])

DayOne == DayRecord("2024-01-01", << HourRecord("2024-01-01 00:00", 26),
                                     HourRecord("2024-01-01 01:00", 25) >>)
DayTwo == DayRecord("2024-01-02", << HourRecord("2024-01-02 00:00", 27) >>)

\* number of hour records of each day of the long forecast
LongDayHours == 25

\* the hour records 1..n of a day, each with its own time and temperature
HoursOf(date, base, n) ==
    [h \in 1..n |-> HourRecord(date \o " " \o NatStr(h), base + h)]

AlertsTwo == JObj([alert |-> JList(<< JObj([headline |-> JStr("Typhoon warning")]),
                                      JObj([event |-> JStr("Flood")]) >>)])

ForecastFull ==
    JObj([ location |-> JObj(LocationFields),
           forecast |-> JObj([forecastday |-> JList(<<DayOne, DayTwo>>)]),
           alerts |-> AlertsTwo ])

\* two days of LongDayHours hour records: more than the table shows
ForecastLong ==
    With(ForecastFull, "forecast",
         JObj([forecastday |->
                 JList(<< DayRecord("2024-01-01", HoursOf("2024-01-01", 100, LongDayHours)),
                          DayRecord("2024-01-02", HoursOf("2024-01-02", 200, LongDayHours)) >>)]))

ForecastQuiet == With(ForecastFull, "alerts", JObj([alert |-> EmptyList]))

LineFeature ==
    JObj([ geometry |-> JObj([coordinates |-> JList(<< JList(<<JNum(1250), JNum(140)>>),
                                                       JList(<<JNum(1240), JNum(150)>>) >>)]),
           properties |-> JObj([name |-> JStr("EGAY")]) ])
PointFeature ==
    JObj([ geometry |-> JObj([coordinates |-> JList(<<JNum(1230), JNum(160)>>)]) ])
NullGeometryFeature ==
    JObj([ geometry |-> JNull, properties |-> JObj([name |-> JStr("EGAY")]) ])

\* features with nothing to draw: no geometry, no coordinates, null or empty
\* coordinates
BareFeatures ==
    << EmptyObj,
       JObj([geometry |-> EmptyObj]),
       JObj([geometry |-> JObj([coordinates |-> JNull])]),
       JObj([geometry |-> JObj([coordinates |-> EmptyList])]) >>

Features(fs) == JObj([features |-> JList(fs)])

-----------------------------------------------------------------------------
(* Initial states *)

KeyMaps(values) == UNION {[S -> values] : S \in SUBSET KeyNames}

FileWith(keys) == [file |-> TRUE, keys |-> keys]
NoFile == [file |-> FALSE, keys |-> <<>>]

BothKeys == [k \in KeyNames |-> "k"]

\* the script has not run yet: no entry is cached and the page is empty
Fresh ==
    /\ WEATHERAPI_KEY = JNull /\ OPENWEATHER_KEY = JNull
    /\ cache = <<>> /\ fetched = <<>>
    /\ lat = Undef /\ lon = Undef
    /\ opts = <<>> /\ shown = <<>> /\ calls = <<>> /\ lastnet = "none"
    /\ table = <<>> /\ map = NoMap /\ raised = "none"
    /\ rerun = FALSE

SetWidgets(w) ==
    /\ place = w.place /\ sel = w.sel /\ in_lat = w.in_lat /\ in_lon = w.in_lon
    /\ forecast_type = w.forecast_type /\ show_typhoons = w.show_typhoons
    /\ clicked = w.clicked

\* values of us-epa-index the service is taken to send
AqiIndexes == (0 - 1)..8

\* current-weather responses: objects lacking some of the expected fields
CurrentShapes ==
    {CurrentFull, Without(CurrentFull, {"current"}), Without(CurrentFull, {"location"}),
     With(CurrentFull, "current", EmptyObj), With(CurrentFull, "location", EmptyObj)}
    \cup {With(CurrentFull, "current", Without(JObj(CurrentFields), {k})) :
            k \in DOMAIN CurrentFields}
    \cup {With(CurrentFull, "current", With(JObj(CurrentFields), "air_quality", a)) :
            a \in {EmptyObj, Without(AirFull, {"us-epa-index"}), Without(AirFull, {"pm2_5"})}
                   \cup {With(AirFull, "us-epa-index", JNum(i)) : i \in AqiIndexes}}
    \cup {With(CurrentFull, "current", With(JObj(CurrentFields), "condition", EmptyObj))}

\* forecast responses: objects lacking some of the expected fields
ForecastShapes ==
    {ForecastFull, ForecastQuiet, Without(ForecastFull, {"forecast"}),
     Without(ForecastFull, {"alerts"}), Without(ForecastFull, {"forecast", "alerts"}),
     With(ForecastFull, "alerts", EmptyObj), With(ForecastFull, "alerts", JNull),
     With(ForecastFull, "forecast", EmptyObj),
     With(ForecastFull, "forecast", JObj([forecastday |-> EmptyList])),
     With(ForecastFull, "forecast", JObj([forecastday |-> JList(<<Without(DayOne, {"hour"})>>)])),
     With(ForecastFull, "forecast", JObj([forecastday |-> JList(<<With(DayOne, "hour", EmptyList)>>)])),
     With(ForecastFull, "forecast", JObj([forecastday |-> JList(<<Without(DayOne, {"day"})>>)])),
     With(ForecastFull, "forecast", JObj([forecastday |-> JList(<<Without(DayOne, {"date"})>>)])),
     With(ForecastFull, "forecast", JObj([forecastday |-> JList(<<EmptyObj>>)])),
     With(ForecastFull, "forecast",
          JObj([forecastday |-> JList(<<With(DayOne, "hour",
                                             JList(<<JObj([temp_c |-> JNum(30)])>>))>>)]))}

\* cyclone feed answers
TyphoonBodies ==
    {Features(<<>>), JObj([features |-> JNull]), EmptyObj, JList(<<>>),
     Features(<<LineFeature, PointFeature>>), Features(<<NullGeometryFeature>>),
     Features(<<PointFeature, NullGeometryFeature, LineFeature>>),
     Features(BareFeatures), Features(<<PointFeature>> \o BareFeatures \o <<LineFeature>>)}

\* a service that always gives the same answer
Always(out) == {out}

\* a behaviour of the four services, and the configuration and the number of
\* user interactions it is explored with
Profile(g, c, f, t, se, en, n) ==
    [feed |-> [geocode |-> g, current |-> c, forecast |-> f, typhoon |-> t],
     secrets |-> se, environ |-> en, runs |-> n, widgets |-> DefaultWidgets, pc |-> "idle"]

\* number of interactions explored for each configuration of the keys
StartupRuns == 1

\* the services answer well or fail, call by call
MainProfile ==
    Profile({NetFail("Timeout"), NetOk(GeoNothing), NetOk(GeoTwo)},
            {NetFail("HTTPError"), NetOk(CurrentFull)},
            {NetFail("ConnectionError"), NetOk(ForecastFull)},
            {NetFail("JSONDecodeError"), NetOk(Features(<<LineFeature, PointFeature>>))},
            FileWith([WEATHERAPI_KEY |-> "k"]), BothKeys, MaxRuns)

\* every request fails the same way
FailureProfiles ==
    {Profile(Always(NetFail(k)), Always(NetFail(k)), Always(NetFail(k)), Always(NetFail(k)),
             NoFile, BothKeys, MaxRuns) : k \in FailureKinds}
    \cup {Profile(Always(NetOk(JList(<<JNum(1)>>))), Always(NetFail("Timeout")),
                  Always(NetFail("Timeout")), Always(NetOk(JList(<<JNum(1)>>))),
                  NoFile, BothKeys, MaxRuns)}

\* the weather services answer with one given shape
ShapeProfiles ==
    {Profile(Always(NetOk(GeoNothing)), Always(NetOk(c)), Always(NetOk(ForecastFull)),
             Always(NetOk(Features(<<>>))), NoFile, BothKeys, MaxRuns) : c \in CurrentShapes}
    \cup {Profile(Always(NetOk(GeoNothing)), Always(NetOk(CurrentFull)), Always(NetOk(f)),
                  Always(NetOk(Features(<<>>))), NoFile, BothKeys, MaxRuns) : f \in ForecastShapes}

\* the cyclone feed answers with one given body, the weather service is up or down
MapProfiles ==
    {Profile(Always(NetOk(GeoNothing)), Always(w), Always(NetFail("Timeout")),
             Always(NetOk(b)), NoFile, BothKeys, MaxRuns) :
        w \in {NetFail("Timeout"), NetOk(CurrentFull)}, b \in TyphoonBodies}

\* every content of the secrets file and of the environment
ConfigProfiles ==
    {Profile(Always(NetOk(GeoTwo)), Always(NetOk(CurrentFull)), Always(NetOk(ForecastQuiet)),
             Always(NetOk(Features(<<>>))), se, en, StartupRuns) :
        se \in {NoFile} \cup {FileWith(m) : m \in KeyMaps({"", "k"})},
        en \in KeyMaps({"", "k"})}

\* number of interactions explored from a run that starts with widgets set
ResumedRuns == 1

\* a run started by a widget change after every cached entry has expired: the
\* widgets hold the values w, the script starts at its first line
Resumed(p, w) == [p EXCEPT !.widgets = w, !.pc = "config", !.runs = ResumedRuns]

\* every service answers, always the same
Steady(g, f, t) ==
    Profile(Always(NetOk(g)), Always(NetOk(CurrentFull)), Always(NetOk(f)),
            Always(NetOk(t)), NoFile, BothKeys, ResumedRuns)

\* a place is typed and the geocoding service finds two results
SearchProfiles ==
    {Resumed(Steady(g, ForecastFull, Features(<<LineFeature>>)),
             [DefaultWidgets EXCEPT !.place = "cebu", !.forecast_type = t]) :
        g \in {GeoTwo, GeoSameLabel}, t \in ForecastTypes}

\* the forecast panels with a forecast of more hours than the table shows
LongProfiles ==
    {Resumed(Steady(GeoNothing, ForecastLong, Features(<<>>)),
             [DefaultWidgets EXCEPT !.forecast_type = t]) : t \in {"Hourly", "Daily"}}

Profiles == {MainProfile} \cup FailureProfiles \cup ShapeProfiles \cup MapProfiles
            \cup ConfigProfiles \cup SearchProfiles \cup LongProfiles

Init ==
    /\ \E p \in Profiles :
         /\ feed = p.feed
         /\ secrets = p.secrets /\ environ = p.environ
         /\ runs = p.runs
         /\ SetWidgets(p.widgets)
         /\ pc = p.pc
    /\ Fresh
    /\ fn_arg = 0 /\ fn_result = ""

Spec == Init /\ [][Next]_vars

-----------------------------------------------------------------------------
(* Helper functions applied on their own *)

\* largest bearing tried, in hundredths of a degree
MaxBearing == 36000

InitWind ==
    /\ fn_arg \in 0..MaxBearing
    /\ fn_result = ""
    /\ feed = MainProfile.feed
    /\ secrets = MainProfile.secrets /\ environ = MainProfile.environ
    /\ runs = 0
    /\ SetWidgets(DefaultWidgets)
    /\ pc = "idle"
    /\ Fresh

\* format_wind_direction(degrees) is called
ApplyWind ==
    /\ fn_result = ""
    /\ fn_result' = format_wind_direction(fn_arg)
    /\ UNCHANGED <<rerun, secrets, environ, WEATHERAPI_KEY, OPENWEATHER_KEY, cache, fetched,
                   place, sel, in_lat, in_lon, forecast_type, show_typhoons, clicked,
                   feed, pc, runs, lat, lon, opts, shown, calls, lastnet, table, map,
                   raised, fn_arg>>

SpecWind == InitWind /\ [][ApplyWind]_vars

\* largest whole bearing tried on either side of zero, in degrees
WindSpan == 720

\* a whole number of degrees, negative or not, is the argument
InitWindAny ==
    /\ fn_arg \in {100 * d : d \in (0 - WindSpan)..WindSpan}
    /\ fn_result = ""
    /\ feed = MainProfile.feed
    /\ secrets = MainProfile.secrets /\ environ = MainProfile.environ
    /\ runs = 0
    /\ SetWidgets(DefaultWidgets)
    /\ pc = "idle"
    /\ Fresh

SpecWindAny == InitWindAny /\ [][ApplyWind]_vars

-----------------------------------------------------------------------------
(* Properties *)

Last(s) == s[Len(s)]

Retrievals == {"geocode", "get_weather_current", "get_weather_forecast",
               "fetch_typhoon_tracks"}

\* the fixed default each retrieval function substitutes for a failure
DefaultOf(fn) ==
    CASE fn = "geocode" -> EmptyList
      [] fn = "get_weather_current" -> JNull
      [] fn = "get_weather_forecast" -> JNull
      [] fn = "fetch_typhoon_tracks" -> EmptyList

\* every request of every service fails
AllRequestsFail ==
    \A o \in feed.geocode \cup feed.current \cup feed.forecast \cup feed.typhoon :
        o.kind \in FailureKinds

\* the calls of this run made of function fn
CallsOf(fn) == {i \in 1..Len(calls) : calls[i].key.fn = fn}

\* C1: a failed upstream request (transport error, timeout, non-2xx status,
\* malformed JSON) never ends the run with an exception; the call returns the
\* fixed default of its function: [] for geocode and fetch_typhoon_tracks,
\* None for get_weather_current and get_weather_forecast.
C1_FailureYieldsDefault ==
    /\ (calls # <<>> /\ lastnet \in FailureKinds)
          => /\ Last(calls).ret = DefaultOf(Last(calls).key.fn)
             /\ raised = "none"
    /\ AllRequestsFail
          => /\ \A i \in 1..Len(calls) : calls[i].ret = DefaultOf(calls[i].key.fn)
             /\ raised = "none"

\* a run in which all four functions were called and every request failed on
\* a malformed body
C1_Witness ==
    /\ pc = "done"
    /\ AllRequestsFail
    /\ lastnet = "JSONDecodeError"
    /\ \A fn \in Retrievals : CallsOf(fn) # {}

WeatherFns == {"get_weather_current", "get_weather_forecast"}

\* position in calls of the call made by the forecast panel
PanelCallIndex == IF place # "" THEN 3 ELSE 2

Tab1Shown == SelectSeq(shown, LAMBDA e : e.w = "tab1")

\* C2: a weather response that is a JSON object lacking any of the expected
\* fields never makes the selected panel or the map popup raise.
C2_AbsentFieldsNeverRaise ==
    ~(/\ pc = "raised"
      /\ Len(calls) >= PanelCallIndex
      /\ Last(calls).key.fn \in WeatherFns
      /\ HasGet(Last(calls).ret))

\* a call was appended to the log of the run
CallMade == Len(calls') = Len(calls) + 1

\* C3 as stated: a call whose arguments were last requested less than the TTL
\* ago issues no request and returns the result of that request; a call whose
\* arguments were last requested at least the TTL ago issues a request.
C3_OneRequestPerTTL ==
    [][CallMade =>
         LET k == Last(calls').key
         IN  k \in DOMAIN fetched =>
               IF fetched[k].age < TTL(k)
               THEN lastnet' = "none" /\ Last(calls').ret = fetched[k].ret
               ELSE lastnet' # "none"]_vars

\* C3 amended: as C3, the first half only when 'Refresh All Data' was not
\* pressed since the request.
C3_OneRequestPerTTLUnlessCleared ==
    [][CallMade =>
         LET k == Last(calls').key
         IN  k \in DOMAIN fetched =>
               /\ (fetched[k].age < TTL(k) /\ ~fetched[k].cleared)
                     => (lastnet' = "none" /\ Last(calls').ret = fetched[k].ret)
               /\ fetched[k].age >= TTL(k) => lastnet' # "none"]_vars

\* 300 s after the first run: the forecast is requested again, the cyclone
\* feed is served from the cache
C3_Witness ==
    /\ pc = "done"
    /\ KeyTyphoon \in DOMAIN fetched /\ fetched[KeyTyphoon].age = WeatherTTL
    /\ \E i \in CallsOf("fetch_typhoon_tracks") : calls[i].hit
    /\ \E i \in CallsOf("get_weather_forecast") : ~calls[i].hit
    /\ \E i, j \in CallsOf("get_weather_current") : ~calls[i].hit /\ calls[j].hit

\* the 16 compass points in the order of the sectors
CompassPoints == <<"N", "NNE", "NE", "ENE", "E", "ESE", "SE", "SSE",
                   "S", "SSW", "SW", "WSW", "W", "WNW", "NW", "NNW">>

\* bearing d (hundredths of a degree) lies in sector k: 22.5k - 11.25 <= d <
\* 22.5k + 11.25, modulo 360
InSector(d, k) ==
    \E t \in {d, d - 36000} : 2250 * k - 1125 <= t /\ t < 2250 * k + 1125

\* C4: every bearing of 0..360 degrees is given the compass point of the
\* sector it lies in.
C4_CompassSectors ==
    fn_result # "" =>
        \A k \in 0..15 : InSector(fn_arg, k) => fn_result = CompassPoints[k + 1]

\* 348.75 degrees, the lower boundary of the sector of N
C4_Witness == fn_arg = 34875 /\ fn_result = "N"

AqiNames == <<"Good", "Moderate", "Unhealthy for Sensitive", "Unhealthy",
              "Very Unhealthy", "Hazardous">>

\* the us-epa-index of the response the Current panel was drawn from, 0 when
\* its air_quality object has none
PanelEpaIndex ==
    LET aq == calls[PanelCallIndex].ret.f["current"].f["air_quality"]
    IN  IF "us-epa-index" \in DOMAIN aq.f THEN aq.f["us-epa-index"].n ELSE 0

\* C5: the Overall metric of the Current panel names the index of the
\* response: its label for 1..6, "Unknown" for any other value and for the 0
\* substituted for a missing index.
C5_AqiLabels ==
    \A i \in 1..Len(shown) :
        shown[i].k = "metric:Overall" =>
            shown[i].v = IF PanelEpaIndex \in 1..6 THEN AqiNames[PanelEpaIndex]
                         ELSE "Unknown"

\* the response has an air_quality object without an index
C5_Witness ==
    /\ \E i \in 1..Len(shown) : shown[i].k = "metric:Overall" /\ shown[i].v = "Unknown"
    /\ "us-epa-index" \notin
          DOMAIN calls[PanelCallIndex].ret.f["current"].f["air_quality"].f

\* a place was typed and geocoding gave no result
GeocodeEmpty ==
    /\ place # ""
    /\ calls # <<>>
    /\ calls[1].key.fn = "geocode"
    /\ ~Truthy(calls[1].ret)

\* C6: when geocoding gives no result the location section does not raise,
\* shows "Location not found" and the run uses the default coordinates.
C6_NotFoundUsesDefault ==
    GeocodeEmpty =>
        /\ lat = JNum(DefaultLat) /\ lon = JNum(DefaultLon)
        /\ \E i \in 1..Len(shown) :
              shown[i] = El("sidebar", "error", "Location not found", "")
        /\ pc = "raised" => Len(calls) >= 2
        /\ \A i \in 2..Len(calls) :
              calls[i].key.fn \in WeatherFns =>
                  calls[i].key.lat = JNum(DefaultLat) /\ calls[i].key.lon = JNum(DefaultLon)
        /\ map.embedded => map.center = <<JNum(DefaultLat), JNum(DefaultLon)>>

\* the geocoding request timed out and the run completed
C6_Witness ==
    /\ GeocodeEmpty
    /\ pc = "done"
    /\ map.embedded
    /\ \E i \in 1..Len(shown) : shown[i] = El("sidebar", "error", "Geocoding error", "")

\* the key is neither in the secrets file nor in the environment
KeyAbsent(name) ==
    /\ ~secrets.file \/ name \notin DOMAIN secrets.keys
    /\ name \notin DOMAIN environ

\* C7: with a key absent from both sources the script shows the error and
\* stops: no request is issued, nothing is cached, no panel is rendered.
C7_MissingKeyHalts ==
    (\E n \in KeyNames : KeyAbsent(n)) =>
        /\ pc \in {"idle", "config", "stopped"}
        /\ calls = <<>> /\ cache = <<>> /\ fetched = <<>>
        /\ ~map.embedded
        /\ \A i \in 1..Len(shown) :
              shown[i] = El("main", "error", "API Keys Not Found!", "")

\* only OPENWEATHER_KEY is missing, the script stopped
C7_Witness ==
    /\ pc = "stopped"
    /\ KeyAbsent("OPENWEATHER_KEY") /\ ~KeyAbsent("WEATHERAPI_KEY")
    /\ shown = << El("main", "error", "API Keys Not Found!", "") >>

\* the request of the forecast panel failed in this run
PanelRequestFailed ==
    /\ Len(calls) >= PanelCallIndex
    /\ ~calls[PanelCallIndex].hit
    /\ calls[PanelCallIndex].ret = JNull

\* C8: when the request of the selected panel fails, the forecast tab holds
\* the error message and nothing else.
C8_FailedPanelIsEmpty ==
    PanelRequestFailed =>
        /\ Tab1Shown = << El("tab1", "error", "Weather API error", "") >>
        /\ table = <<>>

\* the days=2 request of the Hourly panel failed and the run completed
C8_Witness ==
    /\ PanelRequestFailed
    /\ forecast_type = "Hourly"
    /\ pc = "done"

\* every weather call of the run returned None
WeatherAllFailed ==
    /\ CallsOf("get_weather_forecast") # {}
    /\ \A i \in 1..Len(calls) : calls[i].key.fn \in WeatherFns => calls[i].ret = JNull

\* C9: a run whose weather calls all fail does not raise, and when it ends the
\* map is embedded, centred on lat, lon, its popup shows N/A and the refresh
\* button is on the page.
C9_WeatherFailureStaysLocal ==
    WeatherAllFailed =>
        /\ pc # "raised"
        /\ pc = "done" =>
              /\ map.embedded
              /\ map.center = <<lat, lon>>
              /\ map.temp = "N/A"
              /\ Rendered("button")

\* the cyclone feed failed or gave no features
NoTracks ==
    /\ calls # <<>>
    /\ Last(calls).key = KeyTyphoon
    /\ lastnet \in FailureKinds \/ ~Truthy(Last(calls).ret)

\* C10: with typhoon tracking on and a feed that fails or has no features,
\* fetch_typhoon_tracks gives [], the map has no typhoon layer and is
\* embedded; with typhoon tracking off the feed is not requested.
C10_NoTracksNoLayer ==
    /\ NoTracks =>
          /\ Last(calls).ret = EmptyList
          /\ pc \in {"footer", "done"}
          /\ map.embedded /\ ~map.typhoonLayer /\ map.items = <<>>
          /\ Rendered("map")
    /\ ~show_typhoons => CallsOf("fetch_typhoon_tracks") = {}

\* the feed answered {"features": null}
C10_Witness ==
    /\ NoTracks
    /\ show_typhoons
    /\ lastnet = "ok"
    /\ NetOk(JObj([features |-> JNull])) \in feed.typhoon
    /\ pc = "done"

\* the button was pressed and the script has reached it
RefreshPressed == pc = "footer" /\ clicked

\* the call just made is the first of this run with its arguments
FirstCallOfRun == \A i \in 1..Len(calls) : calls[i].key # Last(calls').key

\* no entry that has not expired is removed or replaced
EntriesKept ==
    \A k \in DOMAIN cache :
        cache[k].age < TTL(k) =>
            k \in DOMAIN cache' /\ cache'[k].ret = cache[k].ret

\* C11 as stated: the press empties the cache and starts the script again;
\* every call of the run so started issues a request; no other step removes
\* an entry that has not expired.
C11_RefreshRequestsEveryCall ==
    [][/\ RefreshPressed => (cache' = <<>> /\ pc' = "config" /\ rerun')
       /\ (CallMade /\ rerun) => lastnet' # "none"
       /\ ~RefreshPressed => EntriesKept]_vars

\* C11 amended: as C11, with a request issued by the first call with given
\* arguments of the run the press starts; a repeated call of that run is
\* served from the new entry.
C11_RefreshRequestsEveryFirstCall ==
    [][/\ RefreshPressed => (cache' = <<>> /\ pc' = "config" /\ rerun')
       /\ (CallMade /\ rerun /\ FirstCallOfRun) => lastnet' # "none"
       /\ (CallMade /\ rerun /\ ~FirstCallOfRun) =>
             (lastnet' = "none" /\ fetched[Last(calls').key].age = 0)
       /\ ~RefreshPressed => EntriesKept]_vars

\* the run started by a press has requested the forecast, the current weather
\* and the cyclone feed again, and served the popup from the new entry
C11_Witness ==
    /\ rerun /\ pc = "done"
    /\ \E i \in CallsOf("get_weather_current") : calls[i].hit
    /\ \A fn \in Retrievals \ {"geocode"} : \E i \in CallsOf(fn) : ~calls[i].hit

\* C12: the value a call returns was computed by a call with the same
\* arguments; so the weather calls of a run return data requested for the
\* lat, lon of the run, and a forecast call returns data requested for its
\* own number of days.
C12_CacheKeyedByArguments ==
    \A i \in 1..Len(calls) :
        /\ calls[i].origin = calls[i].key
        /\ calls[i].key.fn \in WeatherFns =>
              calls[i].origin.lat = lat /\ calls[i].origin.lon = lon
        /\ calls[i].key.fn = "get_weather_forecast" =>
              calls[i].origin.days = calls[i].key.days

\* the days=1 call was served from an unexpired entry, and the days=2 call of
\* the same run, for the same coordinates, issued its own request
C12_Witness ==
    \E i, j \in CallsOf("get_weather_forecast") :
        /\ calls[i].key.days = 1 /\ calls[i].hit
        /\ cache[calls[i].key].age < WeatherTTL
        /\ calls[j].key.days = 2 /\ ~calls[j].hit
        /\ calls[j].key.lat = calls[i].key.lat /\ calls[j].key.lon = calls[i].key.lon

\* the retrieval of the selected forecast panel
ExpectedPanelCall ==
    CASE forecast_type = "Current" -> KeyCurrent(lat, lon)
      [] forecast_type = "Hourly" -> KeyForecast(lat, lon, 2)
      [] forecast_type = "Daily" -> KeyForecast(lat, lon, 7)

\* the retrievals of a run in program order
ProgramOrder ==
    (IF place # "" THEN << KeyGeocode(place) >> ELSE <<>>)
    \o << KeyForecast(lat, lon, 1), ExpectedPanelCall, KeyCurrent(lat, lon) >>
    \o (IF show_typhoons THEN << KeyTyphoon >> ELSE <<>>)

\* the calls made so far are the first calls of the program order
InProgramOrder ==
    /\ Len(calls) <= Len(ProgramOrder)
    /\ \A i \in 1..Len(calls) : calls[i].key = ProgramOrder[i]
    /\ pc = "done" => Len(calls) = Len(ProgramOrder)

\* C13: the calls of a run follow the program order - geocode when a place is
\* typed, forecast for one day, the retrieval of the panel, current weather
\* for the popup, the cyclone feed when tracking is on; a step issues at most
\* one request and has its result before the next call is made.
C13_RequestsInProgramOrder ==
    [][/\ InProgramOrder'
       /\ \/ calls' = calls
          \/ calls' = <<>>
          \/ /\ CallMade
             /\ SubSeq(calls', 1, Len(calls)) = calls
             /\ lastnet' # "none" <=> ~Last(calls').hit
             /\ lastnet' \in FailureKinds => Last(calls').ret = DefaultOf(Last(calls').key.fn)]_vars

\* a run with a place typed, the Hourly panel and typhoon tracking issued all
\* five requests
C13_Witness ==
    /\ pc = "done"
    /\ place # "" /\ forecast_type = "Hourly" /\ show_typhoons
    /\ Len(calls) = 5
    /\ \A i \in 1..5 : ~calls[i].hit

\* the location section found results and the run went on
ResultsListed ==
    /\ place # ""
    /\ Len(calls) >= 2
    /\ calls[1].key.fn = "geocode"
    /\ Truthy(calls[1].ret)

\* the result at the position the selectbox holds: the one the user chose in
\* this list, the first when no choice was made
ChosenResult == calls[1].ret.s[sel.idx]

\* C14: with a non-empty result list the run uses the coordinates of the
\* result chosen in the list, of the first result when none was chosen.
C14_ChosenResultUsed ==
    ResultsListed =>
        /\ sel.idx \in 1..Len(calls[1].ret.s)
        /\ lat = ChosenResult.f["latitude"]
        /\ lon = ChosenResult.f["longitude"]

\* the last request made for the arguments failed, less than the TTL ago and
\* with no press of the refresh button since
FailureRemembered(k) ==
    /\ k \in DOMAIN fetched
    /\ fetched[k].net \in FailureKinds
    /\ fetched[k].age < TTL(k)
    /\ ~fetched[k].cleared

\* C15: a call whose arguments were last requested with a failure, less than
\* the TTL ago and with no refresh since, issues no request and returns the
\* default of its function.
C15_FailureIsCached ==
    [][CallMade =>
         (FailureRemembered(Last(calls').key) =>
             /\ lastnet' = "none"
             /\ Last(calls').hit
             /\ Last(calls').ret = DefaultOf(Last(calls').key.fn))]_vars

\* the requests of the forecast, of the current weather and of the cyclone
\* feed failed 150 s ago: the calls of this run are answered from the cache
C15_Witness ==
    /\ pc = "done"
    /\ \A fn \in Retrievals \ {"geocode"} :
          \E i \in CallsOf(fn) :
              /\ calls[i].hit /\ calls[i].ret = DefaultOf(fn)
              /\ fetched[calls[i].key].net \in FailureKinds
              /\ fetched[calls[i].key].age = 150

\* C16: whenever the script is past the sidebar, lat and lon are assigned; no
\* run ends on a NameError and no weather call is made with an unassigned
\* coordinate.
C16_CoordinatesAssigned ==
    /\ pc \in {"alerts", "tab1", "tab2", "map", "footer", "done"} =>
          lat # Undef /\ lon # Undef
    /\ raised # "NameError"
    /\ \A i \in 1..Len(calls) :
          calls[i].key.fn \in WeatherFns =>
              calls[i].key.lat # Undef /\ calls[i].key.lon # Undef

\* a place was typed, results were listed and the coordinates of the second
\* one carried the run to its end
C16_Witness ==
    /\ pc = "done"
    /\ ResultsListed
    /\ sel.idx = 2
    /\ lat = JNum(103157) /\ lon = JNum(DefaultLon)

\* C17: once the script is past the configuration block both keys hold
\* non-empty strings.
C17_KeysNonEmpty ==
    pc \notin {"idle", "config", "stopped"} =>
        /\ WEATHERAPI_KEY.t = "str" /\ WEATHERAPI_KEY.s # ""
        /\ OPENWEATHER_KEY.t = "str" /\ OPENWEATHER_KEY.s # ""

\* the coordinates of a feature, null when its geometry or its coordinates
\* are missing or null
CoordinatesOf(feature) ==
    LET geometry == IF feature.t = "obj" /\ "geometry" \in DOMAIN feature.f
                    THEN feature.f["geometry"] ELSE JNull
    IN  IF geometry.t = "obj" /\ "coordinates" \in DOMAIN geometry.f
        THEN geometry.f["coordinates"] ELSE JNull

\* the shape drawn for a feature with non-empty coordinates
ShapeOf(feature) ==
    LET c == CoordinatesOf(feature).s
    IN  IF c[1].t = "list"
        THEN [kind |-> "polyline", pts |-> [j \in 1..Len(c) |-> <<c[j].s[2], c[j].s[1]>>]]
        ELSE [kind |-> "circleMarker", pts |-> << <<c[2], c[1]>> >>]

\* fetch_typhoon_tracks returned a list to the map of this run
TracksReturned ==
    /\ calls # <<>>
    /\ Last(calls).key = KeyTyphoon
    /\ Last(calls).ret.t = "list"

\* C18: the map of a run holds, in feed order, one polyline or one circle
\* marker for each feature with non-empty coordinates and nothing for the
\* others, and generating it raises no error.
C18_OneShapePerFeature ==
    TracksReturned =>
        LET kept == SelectSeq(Last(calls).ret.s, LAMBDA f : Truthy(CoordinatesOf(f)))
        IN  /\ pc # "raised"
            /\ Len(map.items) = Len(kept)
            /\ \A i \in 1..Len(kept) :
                  /\ map.items[i].kind = ShapeOf(kept[i]).kind
                  /\ map.items[i].pts = ShapeOf(kept[i]).pts

\* the Hourly panel of this run was rendered from a response
HourlyShown ==
    /\ forecast_type = "Hourly"
    /\ pc \in {"tab2", "map", "footer", "done"}
    /\ Len(calls) >= PanelCallIndex
    /\ calls[PanelCallIndex].ret.t = "obj"

\* the forecast days of the response of the panel
ResponseDays ==
    LET r == calls[PanelCallIndex].ret.f
    IN  IF "forecast" \in DOMAIN r /\ "forecastday" \in DOMAIN r["forecast"].f
        THEN r["forecast"].f["forecastday"].s ELSE <<>>

\* the hour records of one day of the response
ResponseHours(d) ==
    IF "hour" \in DOMAIN ResponseDays[d].f THEN ResponseDays[d].f["hour"].s ELSE <<>>

\* number of hour records of the days before day d
RECURSIVE HoursBefore(_)
HoursBefore(d) == IF d = 1 THEN 0 ELSE HoursBefore(d - 1) + Len(ResponseHours(d - 1))

FieldOrNull(obj, k) == IF k \in DOMAIN obj.f THEN obj.f[k] ELSE JNull

\* C19: in Hourly mode hour h of day d of the response, the i-th record in
\* upstream order, is row i of the table when i <= 48; the table has as many
\* rows as the response has records, and 48 when it has more.
C19_HourlyTableInOrder ==
    HourlyShown =>
        LET total == HoursBefore(Len(ResponseDays) + 1)
        IN  /\ Len(table) = IF total <= 48 THEN total ELSE 48
            /\ \A d \in 1..Len(ResponseDays) :
                  \A h \in 1..Len(ResponseHours(d)) :
                      LET i == HoursBefore(d) + h
                      IN  i <= 48 =>
                            /\ table[i]["time"] = FieldOrNull(ResponseHours(d)[h], "time")
                            /\ table[i]["temp_c"] = FieldOrNull(ResponseHours(d)[h], "temp_c")

\* the response has two days of 25 hour records; the table ends with hour 23
\* of the second day
C19_Witness ==
    /\ HourlyShown /\ pc = "done"
    /\ HoursBefore(Len(ResponseDays) + 1) = 50
    /\ Len(table) = 48
    /\ table[48]["time"] = JStr("2024-01-02 23")

\* the banner lines on the page
BannerShown == SelectSeq(shown, LAMBDA e : e.k = "alert")

\* position in calls of the alert check
AlertCallIndex == IF place # "" THEN 2 ELSE 1

\* the alerts of the response of the alert check, none when the call failed
\* or the response lists none
ResponseAlerts ==
    LET r == calls[AlertCallIndex].ret
    IN  IF r.t = "obj" /\ "alerts" \in DOMAIN r.f /\ r.f["alerts"].t = "obj"
           /\ "alert" \in DOMAIN r.f["alerts"].f
        THEN r.f["alerts"].f["alert"].s ELSE <<>>

\* C20: once the alert check of a run is done, whatever the forecast type, the
\* page holds one banner line for each alert of the days=1 response for the
\* coordinates of the run, in response order, and none when the response has
\* no alerts or the call failed.
C20_BannerPerAlert ==
    Len(calls) >= AlertCallIndex =>
        /\ calls[AlertCallIndex].key = KeyForecast(lat, lon, 1)
        /\ Len(BannerShown) = Len(ResponseAlerts)
        /\ \A i \in 1..Len(ResponseAlerts) :
              BannerShown[i].v = IF "headline" \in DOMAIN ResponseAlerts[i].f
                                 THEN ResponseAlerts[i].f["headline"].s ELSE "Alert"

\* the Daily panel is selected and the two alerts of the response are shown
C20_Witness ==
    /\ pc = "done"
    /\ forecast_type = "Daily"
    /\ Len(ResponseAlerts) = 2
    /\ BannerShown = << El("main", "alert", "Typhoon warning", ""),
                        El("main", "alert", "Alert", "") >>

\* C21: the label of a whole bearing d, negative or not, is the label of
\* d mod 360.
C21_WindPeriodic ==
    fn_result # "" => fn_result = format_wind_direction(fn_arg % 36000)

====
